---- MODULE Spec2Model ----
(***************************************************************************)
(* A model of the LightRAG API server: the scan coordinator                *)
(* (routes/document_routes.py, document_manager.py), the ingestion         *)
(* pipeline (document_manager.py) and the query gateway                    *)
(* (routes/query_routes.py).                                               *)
(*                                                                         *)
(* The specifications share the variables:                                *)
(*   Spec / FairSpec  the scan coordinator (startScan, getProgress, the    *)
(*                    scheduled scan task)                                 *)
(*   SpecIngest       batch and single uploads and the pipeline            *)
(*   SpecQuery        /query and /query/stream                             *)
(*   SpecAuth         the handlers of the mutating endpoints behind        *)
(*                    verify_api_key                                       *)
(*   SpecParams       query_request_to_params                              *)
(*   SpecDirect       the pipeline on files of the input directory         *)
(***************************************************************************)
EXTENDS Integers, Sequences, FiniteSets, TLC

(***************************************************************************)
(* Bounds of the model.                                                    *)
(***************************************************************************)
NumCallers == 2     \* clients that call POST /documents/scan
MaxCalls == 2       \* startScan calls in one behaviour
MaxProbes == 2      \* getProgress calls in one behaviour
MaxRequests == 2    \* upload and batch requests in one behaviour
MaxBatch == 2       \* files in one batch request
MaxClock == 1       \* seconds that pass in one behaviour
MaxStrLen == 1      \* characters in one string the engine returns
MaxFrags == 3       \* fragments in one fragment sequence
MaxFaults == 2      \* failures of the environment in one behaviour: an I/O
                    \* error, an unreadable, empty or undecodable file, a
                    \* failing engine call, a failing unlink

Callers == 1..NumCallers
Probe == NumCallers + 1   \* the client of GET /documents/scan-progress

\* The files the input directory holds when the scan coordinator runs.
ScanFiles == <<"a.txt", "b.md">>

VARIABLES
    \* ---- scan coordinator
    scan_progress,   \* DocumentProcessor.scan_progress
    progress_lock,   \* DocumentProcessor.progress_lock: the set of its holders
    indexed_files,   \* DocumentManager.indexed_files
    scan_pc,         \* position of each startScan caller in the handler
    responses,       \* how many calls have returned each status so far
    calls,           \* startScan calls begun so far
    scan_tasks,      \* the scan tasks handed to BackgroundTasks, in order
    finished,        \* scans that have ended (is_scanning set back to false)
    probe_pc,        \* position of the getProgress caller
    probes,          \* getProgress calls begun so far
    observed,        \* the value the last getProgress delivered
    observed_in,     \* how many scans had ended when it was delivered
    locked_view,     \* the record as get_scan_progress held it under the lock,
                     \* until the response is built
    \* ---- ingestion
    clock,           \* datetime.now() to the second
    disk,            \* the paths that exist on disk
    requests,        \* the upload and batch requests answered so far
    bg_tasks,        \* the pipeline_index_files tasks handed to BackgroundTasks
    enqueued_docs,   \* documents accepted by rag.apipeline_enqueue_documents
    faults,          \* failures of the environment injected so far
    \* ---- query gateway
    q_request,       \* the QueryRequest of POST /query and POST /query/stream
    q_engine,        \* what rag.aquery does for that request
    q_sync,          \* the answer of POST /query ("none" until it is given)
    q_stream,        \* the state of POST /query/stream and of its generator
    q_frames,        \* the frames the generator has yielded, in order
    \* ---- API key and the remaining mutating endpoints
    api_key,         \* args.key as given to init_routes ("" when there is none)
    presented,       \* the header value verify_api_key examined last
    text_tasks,      \* pipeline_index_texts tasks handed to BackgroundTasks
    rag_store,       \* the engine's stores: "kept", or "cleared" by DELETE
    \* ---- query_request_to_params
    stream_default,  \* the default of QueryParam.stream in the engine
    p_request,       \* the QueryRequest given to query_request_to_params
    p_params         \* the QueryParam it returns

scanVars == <<scan_progress, progress_lock, indexed_files, scan_pc, responses, calls, scan_tasks, finished, probe_pc, probes, observed, observed_in, locked_view>>

ingestVars == <<clock, disk, requests, bg_tasks, enqueued_docs, faults>>

queryVars == <<q_request, q_engine, q_sync, q_stream, q_frames>>

authVars == <<api_key, presented, text_tasks, rag_store>>

paramVars == <<stream_default, p_request, p_params>>

vars == <<scanVars, ingestVars, queryVars, authVars, paramVars>>

(***************************************************************************)
(* DocumentProcessor.__init__: the progress record and its lock.           *)
(***************************************************************************)
InitialProgress ==
    [is_scanning |-> FALSE, current_file |-> "", indexed_count |-> 0,
     total_files |-> 0, progress |-> 0]

\* threading.Lock: acquire succeeds only when nobody holds the lock.
LockNeverHeld == TRUE

LockAvailable == progress_lock = {}

\* scan_progress["is_scanning"] as tested by startScan.
NeverScanning(p) == FALSE

AlreadyScanning(p) == p.is_scanning

\* scan_progress.update({...}) of startScan: three keys are written.
ResetForScan(p) ==
    [p EXCEPT !.is_scanning = TRUE, !.indexed_count = 0, !.progress = 0]

\* background_tasks.add_task(run_scanning_process)
AddTaskDropped(ts) == ts

AddTask(ts) == Append(ts, [pc |-> "scheduled", todo |-> <<>>, failed |-> FALSE])

(***************************************************************************)
(* verify_api_key, the dependency of every mutating endpoint.  A value is  *)
(* a Python object: its type and its content.                              *)
(***************************************************************************)
None == [type |-> "NoneType", val |-> ""]

Str(x) == [type |-> "str", val |-> x]

\* APIKeyHeader(name="X-API-Key", auto_error=False)
APIKeyHeader == [type |-> "APIKeyHeader", val |-> "X-API-Key"]

\* the keys a server is started with, and the header values clients send
Keys == {"", "secret"}

HeaderValues == {None, Str(""), Str("secret"), Str("other")}

\* bool(v) is False for None and for the empty string
Falsy(v) == v = None \/ v = Str("")

\* init_routes: if api_key: api_key_header = APIKeyHeader(...)
api_key_header == IF Falsy(Str(api_key)) THEN None ELSE APIKeyHeader

\* verify_api_key raises HTTPException(403): the key is required and the
\* header is missing, or the header value differs from api_key_header
NeverRaises403(value) == FALSE

Raises403(value) ==
    \/ ~Falsy(api_key_header) /\ Falsy(value)
    \/ ~Falsy(api_key_header) /\ value # api_key_header

\* the header value is looked at only when a key is configured
Examined(value) == IF Falsy(api_key_header) THEN presented ELSE value

\* the dependency lets the request through to its handler: the request
\* carried a header value on which verify_api_key does not raise
Admit == presented' \in {Examined(value) : value \in {v \in HeaderValues : ~Raises403(v)}}

\* the dependency raises and the request is answered 403
Deny == presented' \in {Examined(value) : value \in {v \in HeaderValues : Raises403(v)}}

(***************************************************************************)
(* POST /documents/scan: scan_for_new_documents.                           *)
(***************************************************************************)
\* a client issues the request and the handler is entered
StartScanCall(c) ==
    /\ scan_pc[c] = "idle"
    /\ calls < MaxCalls
    /\ scan_pc' = [scan_pc EXCEPT ![c] = "acquire"]
    /\ calls' = calls + 1
    /\ Admit
    /\ UNCHANGED <<api_key, text_tasks, rag_store>>
    /\ UNCHANGED <<scan_progress, progress_lock, indexed_files, responses, scan_tasks,
                   finished, probe_pc, probes, observed, observed_in, locked_view>>
    /\ UNCHANGED <<ingestVars, queryVars, paramVars>>

\* with doc_processor.progress_lock:
StartScanAcquire(c) ==
    /\ scan_pc[c] = "acquire"
    /\ LockAvailable
    /\ progress_lock' = progress_lock \cup {c}
    /\ scan_pc' = [scan_pc EXCEPT ![c] = "check"]
    /\ UNCHANGED <<scan_progress, indexed_files, responses, calls,
                   scan_tasks, finished, probe_pc, probes, observed, observed_in, locked_view>>
    /\ UNCHANGED <<ingestVars, queryVars, authVars, paramVars>>

\* if scan_progress["is_scanning"]: return {"status": "already_scanning"}
StartScanCheck(c) ==
    /\ scan_pc[c] = "check"
    /\ IF AlreadyScanning(scan_progress)
       THEN /\ progress_lock' = progress_lock \ {c}
            /\ scan_pc' = [scan_pc EXCEPT ![c] = "idle"]
            /\ responses' = [responses EXCEPT !["already_scanning"] = @ + 1]
       ELSE /\ scan_pc' = [scan_pc EXCEPT ![c] = "update"]
            /\ UNCHANGED <<progress_lock, responses>>
    /\ UNCHANGED <<scan_progress, indexed_files, calls, scan_tasks, finished,
                   probe_pc, probes, observed, observed_in, locked_view>>
    /\ UNCHANGED <<ingestVars, queryVars, authVars, paramVars>>

\* scan_progress.update({...}); the with block ends and releases the lock.
StartScanUpdate(c) ==
    /\ scan_pc[c] = "update"
    /\ scan_progress' = ResetForScan(scan_progress)
    /\ progress_lock' = progress_lock \ {c}
    /\ scan_pc' = [scan_pc EXCEPT ![c] = "schedule"]
    /\ UNCHANGED <<indexed_files, responses, calls, scan_tasks,
                   finished, probe_pc, probes, observed, observed_in, locked_view>>
    /\ UNCHANGED <<ingestVars, queryVars, authVars, paramVars>>

\* background_tasks.add_task(...); return {"status": "scanning_started"}
StartScanSchedule(c) ==
    /\ scan_pc[c] = "schedule"
    /\ scan_tasks' = AddTask(scan_tasks)
    /\ scan_pc' = [scan_pc EXCEPT ![c] = "idle"]
    /\ responses' = [responses EXCEPT !["scanning_started"] = @ + 1]
    /\ UNCHANGED <<scan_progress, progress_lock, indexed_files, calls, finished,
                   probe_pc, probes, observed, observed_in, locked_view>>
    /\ UNCHANGED <<ingestVars, queryVars, authVars, paramVars>>

(***************************************************************************)
(* GET /documents/scan-progress: get_scan_progress returns the record      *)
(* itself from inside the with block; the framework serialises what it     *)
(* was handed after the handler has returned.                              *)
(***************************************************************************)
GetProgressAcquire ==
    /\ probe_pc = "idle"
    /\ probes < MaxProbes
    /\ LockAvailable
    /\ progress_lock' = progress_lock \cup {Probe}
    /\ probe_pc' = "locked"
    /\ probes' = probes + 1
    /\ UNCHANGED <<scan_progress, indexed_files, scan_pc, responses,
                   calls, scan_tasks, finished, observed, observed_in, locked_view>>
    /\ UNCHANGED <<ingestVars, queryVars, authVars, paramVars>>

\* return doc_processor.scan_progress (a reference), the lock is released
GetProgressReturn ==
    /\ probe_pc = "locked"
    /\ progress_lock' = progress_lock \ {Probe}
    /\ probe_pc' = "returned"
    /\ locked_view' = scan_progress
    /\ UNCHANGED <<scan_progress, indexed_files, scan_pc, responses,
                   calls, scan_tasks, finished, probes, observed, observed_in>>
    /\ UNCHANGED <<ingestVars, queryVars, authVars, paramVars>>

\* the response body is built from the record the handler returned
GetProgressSerialize ==
    /\ probe_pc = "returned"
    /\ observed' = scan_progress
    /\ observed_in' = IF scan_progress.is_scanning THEN finished ELSE 0
    /\ locked_view' = InitialProgress
    /\ probe_pc' = "idle"
    /\ UNCHANGED <<scan_progress, progress_lock, indexed_files, scan_pc,
                   responses, calls, scan_tasks, finished, probes>>
    /\ UNCHANGED <<ingestVars, queryVars, authVars, paramVars>>

(***************************************************************************)
(* DocumentManager.scan_directory_for_new_files: the supported files of    *)
(* the input directory that are not yet marked indexed.                    *)
(***************************************************************************)
IsNew(f) == f \notin indexed_files

scan_directory_for_new_files == SelectSeq(ScanFiles, IsNew)

\* progress of a scan as a percentage of total_files
ProgressOf(count, total) == IF total = 0 THEN 0 ELSE (count * 100) \div total

(***************************************************************************)
(* The scheduled scan task run_scanning_process.  Every write of the       *)
(* record is one critical section under progress_lock that does no I/O,    *)
(* so each is one step that needs the lock to be free.                     *)
(***************************************************************************)
TaskIds == 1..Len(scan_tasks)

\* new_files = scanNew(); total_files = len(new_files)
RunScanList(t) ==
    /\ scan_tasks[t].pc = "scheduled"
    /\ LockAvailable
    /\ LET new_files == scan_directory_for_new_files IN
       /\ scan_tasks' = [scan_tasks EXCEPT ![t].todo = new_files,
                             ![t].pc = IF new_files = <<>> THEN "finish" ELSE "current"]
       /\ scan_progress' = [scan_progress EXCEPT !.total_files = Len(new_files)]
    /\ UNCHANGED <<progress_lock, indexed_files, scan_pc, responses,
                   calls, finished, probe_pc, probes, observed, observed_in, locked_view>>
    /\ UNCHANGED <<ingestVars, queryVars, authVars, paramVars>>

\* current_file = the next file
RunScanCurrent(t) ==
    /\ scan_tasks[t].pc = "current"
    /\ LockAvailable
    /\ scan_progress' = [scan_progress EXCEPT !.current_file = Head(scan_tasks[t].todo)]
    /\ scan_tasks' = [scan_tasks EXCEPT ![t].pc = "enqueue"]
    /\ UNCHANGED <<progress_lock, indexed_files, scan_pc, responses,
                   calls, finished, probe_pc, probes, observed, observed_in, locked_view>>
    /\ UNCHANGED <<ingestVars, queryVars, authVars, paramVars>>

\* enqueueOne of the file; the file is marked indexed when it succeeded
RunScanEnqueue(t) ==
    /\ scan_tasks[t].pc = "enqueue"
    /\ \E ok \in BOOLEAN :
          /\ scan_tasks' = [scan_tasks EXCEPT ![t].pc = "count"]
          /\ indexed_files' = IF ok THEN indexed_files \cup {Head(scan_tasks[t].todo)}
                                    ELSE indexed_files
    /\ UNCHANGED <<scan_progress, progress_lock, scan_pc, responses,
                   calls, finished, probe_pc, probes, observed, observed_in, locked_view>>
    /\ UNCHANGED <<ingestVars, queryVars, authVars, paramVars>>

\* indexed_count += 1; progress = indexed_count / total_files
RunScanCount(t) ==
    /\ scan_tasks[t].pc = "count"
    /\ LockAvailable
    /\ LET n == scan_progress.indexed_count + 1
           rest == Tail(scan_tasks[t].todo) IN
       /\ scan_progress' = [scan_progress EXCEPT !.indexed_count = n,
                                !.progress = ProgressOf(n, scan_progress.total_files)]
       /\ scan_tasks' = [scan_tasks EXCEPT ![t].todo = rest,
                             ![t].pc = IF rest = <<>> THEN "finish" ELSE "current"]
    /\ UNCHANGED <<progress_lock, indexed_files, scan_pc, responses,
                   calls, finished, probe_pc, probes, observed, observed_in, locked_view>>
    /\ UNCHANGED <<ingestVars, queryVars, authVars, paramVars>>

\* a scan-level failure stops the scan
RunScanFail(t) ==
    /\ scan_tasks[t].pc \in {"scheduled", "current", "enqueue", "count"}
    /\ scan_tasks' = [scan_tasks EXCEPT ![t].pc = "finish", ![t].failed = TRUE]
    /\ UNCHANGED <<scan_progress, progress_lock, indexed_files, scan_pc, responses, calls, finished, probe_pc, probes, observed, observed_in, locked_view>>
    /\ UNCHANGED <<ingestVars, queryVars, authVars, paramVars>>

\* on completion, success or error: is_scanning = false under the mutex
RunScanFinish(t) ==
    /\ scan_tasks[t].pc = "finish"
    /\ LockAvailable
    /\ scan_progress' = [scan_progress EXCEPT !.is_scanning = FALSE]
    /\ scan_tasks' = [scan_tasks EXCEPT ![t].pc = "done"]
    /\ finished' = finished + 1
    /\ UNCHANGED <<progress_lock, indexed_files, scan_pc, responses,
                   calls, probe_pc, probes, observed, observed_in, locked_view>>
    /\ UNCHANGED <<ingestVars, queryVars, authVars, paramVars>>

run_scanning_process(t) ==
    \/ RunScanList(t)
    \/ RunScanCurrent(t)
    \/ RunScanEnqueue(t)
    \/ RunScanCount(t)
    \/ RunScanFail(t)
    \/ RunScanFinish(t)

scan_for_new_documents(c) ==
    \/ StartScanCall(c)
    \/ StartScanAcquire(c)
    \/ StartScanCheck(c)
    \/ StartScanUpdate(c)
    \/ StartScanSchedule(c)

get_scan_progress ==
    \/ GetProgressAcquire
    \/ GetProgressReturn
    \/ GetProgressSerialize

(***************************************************************************)
(* The scan coordinator.                                                   *)
(***************************************************************************)
\* the state after construction of each component
ScanInit ==
    /\ scan_progress = InitialProgress
    /\ progress_lock = {}
    /\ indexed_files = {}
    /\ scan_pc = [c \in Callers |-> "idle"]
    /\ responses = [s \in {"scanning_started", "already_scanning"} |-> 0]
    /\ calls = 0
    /\ scan_tasks = <<>>
    /\ finished = 0
    /\ probe_pc = "idle"
    /\ probes = 0
    /\ observed = InitialProgress
    /\ observed_in = 0
    /\ locked_view = InitialProgress

IngestInit ==
    /\ clock = 0
    /\ disk = {}
    /\ requests = <<>>
    /\ bg_tasks = <<>>
    /\ enqueued_docs = 0
    /\ faults = 0

\* the server is started with `key`; nothing was sent or cleared yet
AuthInit(key) ==
    /\ api_key = key
    /\ presented = None
    /\ text_tasks = 0
    /\ rag_store = "kept"

(***************************************************************************)
(* QueryRequest (models.py) and QueryParam.  A field value is written as    *)
(* Python writes it; "None" is the value of an optional field the request  *)
(* does not carry.                                                         *)
(***************************************************************************)
\* SearchMode
Modes == {"naive", "local", "global", "hybrid", "mix"}

\* optional_params of query_request_to_params, in its order
optional_params ==
    <<"only_need_context", "only_need_prompt", "response_type", "top_k",
      "max_token_for_text_unit", "max_token_for_global_context",
      "max_token_for_local_context", "hl_keywords", "ll_keywords",
      "conversation_history", "history_turns">>

OptionalNames == {optional_params[i] : i \in 1..Len(optional_params)}

ParamFields == {"mode", "stream"} \cup OptionalNames

\* the values a request gives a field: top_k is absent or 7, stream is
\* absent, False or True, any other optional field is absent or given
FieldValues(f) ==
    IF f = "mode" THEN Modes
    ELSE IF f = "stream" THEN {"None", "False", "True"}
    ELSE IF f = "top_k" THEN {"None", "7"}
    ELSE {"None", "given"}

QueryRequests ==
    {[f \in ParamFields |-> IF f = "mode" THEN mode
                            ELSE IF f = "stream" THEN stream
                            ELSE IF f = "top_k" THEN top_k
                            ELSE rest[f]] :
        mode \in FieldValues("mode"), stream \in FieldValues("stream"),
        top_k \in FieldValues("top_k"),
        rest \in [OptionalNames \ {"top_k"} -> FieldValues("hl_keywords")]}

\* the defaults of the dataclass QueryParam: the engine's value of each
\* field that the constructor is not given
EngineDefault(f) == IF f = "stream" THEN stream_default ELSE "default"

\* QueryParam(mode=..., stream=...): the two fields given, the others default
QueryParam(mode, stream) ==
    [f \in ParamFields |-> IF f = "mode" THEN mode
                           ELSE IF f = "stream" THEN stream
                           ELSE EngineDefault(f)]

\* QueryParam(mode=mode): the engine's default configuration for a mode
DefaultParam(mode) ==
    [f \in ParamFields |-> IF f = "mode" THEN mode ELSE EngineDefault(f)]

\* for param_name in optional_params: value = getattr(request, param_name);
\* if value is not None: setattr(param, param_name, value)
RECURSIVE CopyOptional(_, _, _)
CopyOptional(param, request, names) ==
    IF names = <<>> THEN param
    ELSE LET param_name == Head(names)
             value == request[param_name]
         IN CopyOptional(IF value # "None" THEN [param EXCEPT ![param_name] = value]
                                           ELSE param,
                         request, Tail(names))

query_request_to_params(request) ==
    CopyOptional(QueryParam(request["mode"], request["stream"]), request, optional_params)

\* no QueryParam has been built
NotBuilt == [f \in ParamFields |-> "none"]

ParamsOff ==
    /\ stream_default = "False"
    /\ p_request = [f \in ParamFields |-> IF f = "mode" THEN "hybrid" ELSE "None"]
    /\ p_params = NotBuilt

\* no query is made
QueryOff ==
    /\ q_request = [stream |-> "absent"]
    /\ q_engine = [kind |-> "none", text |-> <<>>, dict |-> <<>>, frags |-> <<>>,
                   fail_after |-> 0 - 1]
    /\ q_sync = [code |-> 0, response |-> <<>>]
    /\ q_stream = [state |-> "off", pos |-> 0]
    /\ q_frames = <<>>

Init == ScanInit /\ IngestInit /\ QueryOff /\ AuthInit("") /\ ParamsOff

Next ==
    \/ \E c \in Callers : StartScanCall(c)
    \/ \E c \in Callers : StartScanAcquire(c)
    \/ \E c \in Callers : StartScanCheck(c)
    \/ \E c \in Callers : StartScanUpdate(c)
    \/ \E c \in Callers : StartScanSchedule(c)
    \/ GetProgressAcquire
    \/ GetProgressReturn
    \/ GetProgressSerialize
    \/ \E t \in TaskIds : RunScanList(t)
    \/ \E t \in TaskIds : RunScanCurrent(t)
    \/ \E t \in TaskIds : RunScanEnqueue(t)
    \/ \E t \in TaskIds : RunScanCount(t)
    \/ \E t \in TaskIds : RunScanFail(t)
    \/ \E t \in TaskIds : RunScanFinish(t)

Spec == Init /\ [][Next]_vars

(***************************************************************************)
(* Fairness: a handler that has been entered runs to its return (the       *)
(* critical sections do no I/O), and a task handed to BackgroundTasks is   *)
(* run by the event loop until it ends.  Nothing obliges a client to       *)
(* issue a request.                                                        *)
(***************************************************************************)
HandlerStep ==
    \/ \E c \in Callers : StartScanAcquire(c)
    \/ \E c \in Callers : StartScanCheck(c)
    \/ \E c \in Callers : StartScanUpdate(c)
    \/ \E c \in Callers : StartScanSchedule(c)
    \/ GetProgressReturn
    \/ GetProgressSerialize

TaskStep == \E t \in TaskIds : run_scanning_process(t)

FairSpec == Init /\ [][Next]_vars /\ WF_vars(HandlerStep) /\ WF_vars(TaskStep)

(***************************************************************************)
(* Claims about the scan coordinator.                                      *)
(***************************************************************************)
AllReturned == \A c \in Callers : scan_pc[c] = "idle"

LiveTasks == {t \in TaskIds : scan_tasks[t].pc # "done"}

\* C1: of the startScan calls issued before the started scan has finished,
\* exactly one returns scanning_started and every other one returns
\* already_scanning (and never more calls return scanning_started than
\* scans have finished, plus one).
C1_ExactlyOneStarted ==
    /\ responses["scanning_started"] <= finished + 1
    /\ (finished = 0 /\ AllReturned /\ calls > 0) =>
          /\ responses["scanning_started"] = 1
          /\ responses["already_scanning"] = calls - 1

\* C1 witness: a second call got already_scanning while the winning call
\* was still inside its handler, and no scan has finished.
C1_Witness ==
    /\ finished = 0
    /\ \E c, d \in Callers :
          /\ c # d
          /\ scan_pc[c] = "schedule"
          /\ scan_pc[d] = "idle"
    /\ responses["already_scanning"] >= 1

\* C2: single flight: at most one scan task is scheduled or running, and
\* one is scheduled or running only while is_scanning is true.
C2_SingleFlight ==
    /\ Cardinality(LiveTasks) <= 1
    /\ LiveTasks # {} => scan_progress.is_scanning

\* C2 witness: a scan task is in the middle of a file while a startScan
\* call holds the lock at its check and a progress query has been made.
C2_Witness ==
    /\ \E t \in TaskIds : scan_tasks[t].pc = "count"
    /\ \E c \in Callers : scan_pc[c] = "check"
    /\ probes > 0

\* C3: a started scan eventually ends with is_scanning = false, whether
\* its task completes or fails, and a startScan call that then finds
\* is_scanning false goes on to schedule a scan and return scanning_started
\* ("schedule" is the position the handler returns scanning_started from).
C3_ScanEventuallyEnds ==
    /\ scan_progress.is_scanning ~> ~scan_progress.is_scanning
    /\ \A c \in Callers :
          (scan_pc[c] = "check" /\ ~scan_progress.is_scanning)
              ~> (scan_pc[c] = "schedule")

\* C3 witness: a scan ended after a failure and a later call started the
\* next scan.
C3_Witness ==
    /\ finished >= 1
    /\ \E t \in TaskIds : scan_tasks[t].pc = "done" /\ scan_tasks[t].failed
    /\ responses["scanning_started"] >= 2
    /\ scan_progress.is_scanning

\* a getProgress call delivers its value in this step
Delivers == probe_pc = "returned" /\ probe_pc' = "idle"

\* C12: within one scan the indexed_count values that successive
\* getProgress calls deliver are non-decreasing: when a call delivers a
\* value with is_scanning true in the same scan as the value delivered
\* before it, its indexed_count is not smaller.
C12_IndexedCountMonotone ==
    [][(/\ Delivers
        /\ observed.is_scanning
        /\ observed'.is_scanning
        /\ observed_in' = observed_in)
           => observed'.indexed_count >= observed.indexed_count]_vars

\* C12 witness: a getProgress call delivered a count during a scan, and a
\* second call is about to deliver a larger count of the same scan.
C12_Witness ==
    /\ probes = 2
    /\ probe_pc = "returned"
    /\ observed.is_scanning
    /\ scan_progress.is_scanning
    /\ observed_in = finished
    /\ scan_progress.indexed_count > observed.indexed_count

\* C13 as claimed: the value getProgress delivers is the record as it was
\* at one instant while progress_lock was held; a write made after the
\* lock is released does not change it.
C13_SnapshotUnderLock ==
    [][Delivers => observed' = locked_view]_vars

\* C20 as claimed: when startScan is about to return scanning_started, the
\* record has is_scanning true and its counters indexed_count, total_files
\* and progress are all zero, whatever an earlier scan left in it.
C20_CountersZeroAfterStart ==
    \A c \in Callers :
        scan_pc[c] = "schedule" =>
            /\ scan_progress.is_scanning
            /\ scan_progress.indexed_count = 0
            /\ scan_progress.total_files = 0
            /\ scan_progress.progress = 0

(***************************************************************************)
(* ---- Ingestion: DocumentManager and DocumentProcessor ----              *)
(*                                                                         *)
(* A file name is a stem and the extension as the client wrote it.  A      *)
(* path is the directory, whether the name starts with the temporary       *)
(* marker "__tmp_", the timestamp embedded in the name, and the name.      *)
(***************************************************************************)
supported_extensions == {".txt", ".md", ".pdf", ".docx", ".pptx", ".xlsx"}

\* str.lower() on the extensions the model uses
Lower(ext) ==
    CASE ext = ".TXT" -> ".txt"
      [] ext = ".PDF" -> ".pdf"
      [] OTHER -> ext

\* the names clients upload
UploadNames ==
    {[stem |-> "a", ext |-> ".txt"],
     [stem |-> "c", ext |-> ".exe"]}

\* DocumentManager.is_supported_file: a case-insensitive suffix match
EveryFileSupported(name) == TRUE

is_supported_file(name) == Lower(name.ext) \in supported_extensions

\* DocumentManager.save_temp_file: input_dir / "temp" / "__tmp_<timestamp>_<name>"
TempPath(ts, name) == [dir |-> "temp", marker |-> TRUE, ts |-> ts, name |-> name]

\* temp_path.parent: the sub-directory "temp" of the input directory, which
\* save_temp_file creates with mkdir(exist_ok=True) before it opens the file
TempDir == [dir |-> "input", marker |-> FALSE, ts |-> 0, name |-> [stem |-> "temp", ext |-> ""]]

\* file_path.name.startswith("__tmp_")
IsTempName(path) == path.marker

\* self.input_dir.rglob(f"*{ext}"): the paths below the input directory, at
\* any depth, whose name ends with ext (the match is case-sensitive)
rglob(ext) == {path \in disk : path.name.ext = ext}

\* DocumentManager.scan_directory: every supported file below input_dir
scan_directory == UNION {rglob(ext) : ext \in supported_extensions}

\* DocumentManager.scan_directory_for_new_files on the disk: the same
\* traversal without the paths marked indexed
scan_new_files == {file_path \in scan_directory : file_path \notin indexed_files}

\* file_path.suffix.lower()
Suffix(path) == Lower(path.name.ext)

\* DocumentProcessor.process_file_content: what the dispatch on the extension
\* can produce from a file that could be read: text, no text, or a failure
\* of the extractor.  An extension without a branch leaves content = "".
ExtractOutcomes(ext) ==
    IF ext \in {".txt", ".md", ".pdf", ".docx", ".pptx"}
    THEN {"text", "empty", "extract_error"}
    ELSE {"empty"}

\* the outcomes of pipeline_enqueue_file that are exceptions inside its try
IsException(outcome) == outcome \in {"read_error", "extract_error", "submit_error"}

\* except Exception in pipeline_enqueue_file: every failure becomes False
CatchesAllButSubmit(outcome) == outcome # "submit_error"

Catches(outcome) == TRUE

\* what pipeline_enqueue_file returns: True after the engine accepted the
\* content, False after "No content could be extracted" and from the
\* except clause
TrueUnlessNoContent(outcome) == outcome # "empty"

ReturnValue(outcome) == outcome = "ok"

\* finally in pipeline_enqueue_file: the cleanup runs on every exit path
CleanupOnSuccessOnly(outcome) == outcome = "ok"

CleanupRuns(outcome) == TRUE

\* file_path.unlink() inside try/except: it removes the file, or it fails
\* and the error is logged and swallowed (the file is gone already, or the
\* operating system refuses and the file stays).
UnlinkResults(path, outcome) ==
    IF IsTempName(path) /\ CleanupRuns(outcome)
    THEN IF path \in disk THEN {"removed", "failed"} ELSE {"missing"}
    ELSE {"skipped"}

\* except Exception in pipeline_index_files: the batch logs and returns
BatchCatchesNothing(error) == FALSE

BatchCatches(error) == TRUE

\* enqueued = any(await asyncio.gather(*tasks)), or the one result
AlwaysEnqueued(items) == TRUE

Enqueued(items) == \E i \in 1..Len(items) : items[i].result

\* the status of insert_batch, from inserted_count and len(files)
BatchStatusAllOrNothing(inserted_count, n) ==
    IF inserted_count = n THEN "success" ELSE "failure"

BatchStatus(inserted_count, n) ==
    IF inserted_count = n THEN "success"
    ELSE IF inserted_count > 0 THEN "partial_success"
    ELSE "failure"

NewItem == [pc |-> "new", outcome |-> "none", result |-> FALSE, unlink |-> "none"]

\* background_tasks.add_task(doc_processor.pipeline_index_files, paths)
NewTask(paths) ==
    [paths |-> paths, pc |-> "scheduled", items |-> [i \in 1..Len(paths) |-> NewItem],
     process_calls |-> 0, raised |-> FALSE, logged |-> "none"]

BgIds == 1..Len(bg_tasks)
ItemIds(b) == 1..Len(bg_tasks[b].paths)
TerminalItem(item) == item.pc \in {"returned", "raised"}

(***************************************************************************)
(* datetime.now(): a second passes.                                        *)
(***************************************************************************)
Tick ==
    /\ clock < MaxClock
    /\ clock' = clock + 1
    /\ UNCHANGED <<disk, requests, bg_tasks, enqueued_docs, faults>>
    /\ UNCHANGED <<scanVars, queryVars, authVars, paramVars>>

(***************************************************************************)
(* POST /documents/upload: upload_to_input_dir.  The HTTPException(400)    *)
(* for an unsupported type is raised inside the try and caught by          *)
(* `except Exception`, which raises HTTPException(500).  A failure of      *)
(* save_temp_file is a failure to open the file, after the mkdir.          *)
(***************************************************************************)
\* except Exception as e: raise HTTPException(status_code=500, ...): the
\* status the client gets for an HTTPException raised inside the try
OnHTTPException(status_code) == 500

UploadToInputDir ==
    /\ Len(requests) < MaxRequests
    /\ Admit
    /\ UNCHANGED <<api_key, text_tasks, rag_store>>
    /\ \E name \in UploadNames, io_ok \in BOOLEAN :
          LET path == TempPath(clock, name) IN
          IF ~is_supported_file(name)
          THEN /\ io_ok
               /\ requests' = Append(requests,
                     [kind |-> "upload", ext |-> name.ext, n |-> 1, k |-> 0,
                      code |-> OnHTTPException(400), status |-> "none", task |-> 0])
               /\ UNCHANGED <<disk, bg_tasks, faults>>
          ELSE IF ~io_ok
          THEN /\ faults < MaxFaults
               /\ faults' = faults + 1
               /\ disk' = disk \cup {TempDir}
               /\ requests' = Append(requests,
                     [kind |-> "upload", ext |-> name.ext, n |-> 1, k |-> 1,
                      code |-> 500, status |-> "none", task |-> 0])
               /\ UNCHANGED bg_tasks
          ELSE /\ UNCHANGED faults
               /\ disk' = disk \cup {TempDir, path}
               /\ bg_tasks' = Append(bg_tasks, NewTask(<<path>>))
               /\ requests' = Append(requests,
                     [kind |-> "upload", ext |-> name.ext, n |-> 1, k |-> 1,
                      code |-> 200, status |-> "success", task |-> Len(bg_tasks) + 1])
    /\ UNCHANGED <<clock, enqueued_docs>>
    /\ UNCHANGED <<scanVars, queryVars, paramVars>>

(***************************************************************************)
(* POST /documents/batch: insert_batch.  fail_at is the position of the    *)
(* file whose save_temp_file raises (0: none does); the files staged       *)
(* before it stay on disk and no task is scheduled.                        *)
(***************************************************************************)
BatchFiles == UNION {[1..n -> UploadNames] : n \in 1..MaxBatch}

SupportedIn(files) == {j \in 1..Len(files) : is_supported_file(files[j])}

InsertBatch ==
    /\ Len(requests) < MaxRequests
    /\ Admit
    /\ UNCHANGED <<api_key, text_tasks, rag_store>>
    /\ \E files \in BatchFiles, fail_at \in 0..MaxBatch :
          /\ fail_at = 0 \/ (fail_at \in SupportedIn(files) /\ faults < MaxFaults)
          /\ faults' = IF fail_at = 0 THEN faults ELSE faults + 1
          /\ LET seen == IF fail_at = 0 THEN files ELSE SubSeq(files, 1, fail_at - 1)
                 kept == SelectSeq(seen, is_supported_file)
                 temp_files == [j \in 1..Len(kept) |-> TempPath(clock, kept[j])]
                 inserted_count == Len(temp_files)
                 staged == {temp_files[j] : j \in 1..Len(temp_files)}
             IN /\ disk' = IF temp_files # <<>> \/ fail_at # 0
                            THEN disk \cup staged \cup {TempDir}
                            ELSE disk
                /\ IF fail_at # 0
                   THEN /\ requests' = Append(requests,
                              [kind |-> "batch", ext |-> "", n |-> Len(files),
                               k |-> Cardinality(SupportedIn(files)), code |-> 500,
                               status |-> "none", task |-> 0])
                        /\ UNCHANGED bg_tasks
                   ELSE /\ bg_tasks' = IF temp_files # <<>>
                                       THEN Append(bg_tasks, NewTask(temp_files))
                                       ELSE bg_tasks
                        /\ requests' = Append(requests,
                              [kind |-> "batch", ext |-> "", n |-> Len(files),
                               k |-> Cardinality(SupportedIn(files)), code |-> 200,
                               status |-> BatchStatus(inserted_count, Len(files)),
                               task |-> IF temp_files # <<>> THEN Len(bg_tasks) + 1 ELSE 0])
    /\ UNCHANGED <<clock, enqueued_docs>>
    /\ UNCHANGED <<scanVars, queryVars, paramVars>>

(***************************************************************************)
(* pipeline_index_files called with no path at all: neither handler does   *)
(* so (insert_batch schedules only `if temp_files`), but the method        *)
(* provides for it with its early return.                                  *)
(***************************************************************************)
IndexNoFiles ==
    /\ Len(requests) < MaxRequests
    /\ bg_tasks' = Append(bg_tasks, NewTask(<<>>))
    /\ requests' = Append(requests,
          [kind |-> "direct", ext |-> "", n |-> 0, k |-> 0, code |-> 0, status |-> "none",
           task |-> Len(bg_tasks) + 1])
    /\ UNCHANGED <<clock, disk, enqueued_docs, faults>>
    /\ UNCHANGED <<scanVars, queryVars, authVars, paramVars>>

(***************************************************************************)
(* DocumentProcessor.pipeline_enqueue_file, one call per item of a task.   *)
(* The call yields to the event loop while it reads the file and while     *)
(* the engine enqueues; the return and the finally clause follow without   *)
(* a yield.                                                                *)
(***************************************************************************)
\* the call ends with `outcome`: return True or False, or the exception
\* leaves the call; the finally clause unlinks a temporary file
EndItem(b, i, outcome, cost) ==
    LET path == bg_tasks[b].paths[i] IN
    \E u \in UnlinkResults(path, outcome) :
       /\ faults + cost + (IF u = "failed" THEN 1 ELSE 0) <= MaxFaults
       /\ faults' = faults + cost + (IF u = "failed" THEN 1 ELSE 0)
       /\ disk' = IF u = "removed" THEN disk \ {path} ELSE disk
       /\ bg_tasks' = [bg_tasks EXCEPT ![b].items[i] =
             [pc |-> IF IsException(outcome) /\ ~Catches(outcome)
                     THEN "raised" ELSE "returned",
              outcome |-> outcome, result |-> ReturnValue(outcome), unlink |-> u]]

\* content = await self.process_file_content(file_path); if content: ...
EnqueueExtract(b, i) ==
    /\ bg_tasks[b].pc # "scheduled"
    /\ bg_tasks[b].items[i].pc = "new"
    /\ LET path == bg_tasks[b].paths[i]
           outcomes == IF path \in disk
                       THEN ExtractOutcomes(Suffix(path)) \cup {"read_error"}
                       ELSE {"read_error"}
           \* what the file and the extractor do unless something is wrong
           normal == IF path \notin disk THEN "read_error"
                     ELSE IF "text" \in outcomes THEN "text" ELSE "empty"
       IN \E o \in outcomes :
             IF o = "text"
             THEN /\ bg_tasks' = [bg_tasks EXCEPT ![b].items[i].pc = "submitting"]
                  /\ UNCHANGED <<disk, faults>>
             ELSE EndItem(b, i, o, IF o = normal THEN 0 ELSE 1)
    /\ UNCHANGED <<clock, requests, enqueued_docs>>
    /\ UNCHANGED <<scanVars, queryVars, authVars, paramVars>>

\* await self.rag.apipeline_enqueue_documents(content); return True
EnqueueSubmit(b, i) ==
    /\ bg_tasks[b].items[i].pc = "submitting"
    /\ \E ok \in BOOLEAN :
          /\ EndItem(b, i, IF ok THEN "ok" ELSE "submit_error", IF ok THEN 0 ELSE 1)
          /\ enqueued_docs' = IF ok THEN enqueued_docs + 1 ELSE enqueued_docs
    /\ UNCHANGED <<clock, requests>>
    /\ UNCHANGED <<scanVars, queryVars, authVars, paramVars>>

(***************************************************************************)
(* DocumentProcessor.pipeline_index_files, run as a background task.       *)
(***************************************************************************)
\* the task starts; if not file_paths: return; else the items are started
IndexStart(b) ==
    /\ bg_tasks[b].pc = "scheduled"
    /\ bg_tasks' = [bg_tasks EXCEPT ![b].pc =
                       IF bg_tasks[b].paths = <<>> THEN "done" ELSE "gathering"]
    /\ UNCHANGED <<clock, disk, requests, enqueued_docs, faults>>
    /\ UNCHANGED <<scanVars, queryVars, authVars, paramVars>>

\* asyncio.gather returns when every item has returned and raises as soon
\* as one item raises; if enqueued: the engine's process step is called
IndexGathered(b) ==
    /\ bg_tasks[b].pc = "gathering"
    /\ LET items == bg_tasks[b].items
           raisedItems == {i \in ItemIds(b) : items[i].pc = "raised"}
       IN IF raisedItems # {}
          THEN bg_tasks' = [bg_tasks EXCEPT ![b].pc = "done",
                                ![b].raised = ~BatchCatches("item_error"),
                                ![b].logged = "item_error"]
          ELSE /\ \A i \in ItemIds(b) : items[i].pc = "returned"
               /\ IF Enqueued(items)
                  THEN bg_tasks' = [bg_tasks EXCEPT ![b].pc = "processing",
                                        ![b].process_calls = @ + 1]
                  ELSE bg_tasks' = [bg_tasks EXCEPT ![b].pc = "done"]
    /\ UNCHANGED <<clock, disk, requests, enqueued_docs, faults>>
    /\ UNCHANGED <<scanVars, queryVars, authVars, paramVars>>

\* await self.rag.apipeline_process_enqueue_documents() returns or raises
IndexProcessed(b) ==
    /\ bg_tasks[b].pc = "processing"
    /\ \E ok \in BOOLEAN :
          /\ ok \/ faults < MaxFaults
          /\ faults' = IF ok THEN faults ELSE faults + 1
          /\ bg_tasks' = [bg_tasks EXCEPT ![b].pc = "done",
                              ![b].raised = (~ok /\ ~BatchCatches("process_error")),
                              ![b].logged = IF ok THEN "none" ELSE "process_error"]
    /\ UNCHANGED <<clock, disk, requests, enqueued_docs>>
    /\ UNCHANGED <<scanVars, queryVars, authVars, paramVars>>

pipeline_enqueue_file(b, i) == EnqueueExtract(b, i) \/ EnqueueSubmit(b, i)

pipeline_index_files(b) == IndexStart(b) \/ IndexGathered(b) \/ IndexProcessed(b)

NextIngest ==
    \/ Tick
    \/ UploadToInputDir
    \/ InsertBatch
    \/ IndexNoFiles
    \/ \E b \in BgIds : IndexStart(b)
    \/ \E b \in BgIds : \E i \in ItemIds(b) : EnqueueExtract(b, i)
    \/ \E b \in BgIds : \E i \in ItemIds(b) : EnqueueSubmit(b, i)
    \/ \E b \in BgIds : IndexGathered(b)
    \/ \E b \in BgIds : IndexProcessed(b)

SpecIngest == Init /\ [][NextIngest]_vars

(***************************************************************************)
(* Claims about the ingestion pipeline.                                    *)
(***************************************************************************)
\* the call of item i of task b returns (or raises) in this step
ItemEnds(b, i) ==
    /\ ~TerminalItem(bg_tasks[b].items[i])
    /\ TerminalItem(bg_tasks'[b].items[i])

C5_BatchIsolation ==
    \A b \in BgIds :
        /\ ~bg_tasks[b].raised
        /\ \A i \in ItemIds(b) : bg_tasks[b].items[i].pc # "raised"
        /\ bg_tasks[b].pc \in {"processing", "done"}
              => \A i \in ItemIds(b) : bg_tasks[b].items[i].pc = "returned"

\* C5 witness: a batch of two ended without raising although one item
\* failed in extraction, its sibling succeeded and the process step failed.
C5_Witness ==
    \E b \in BgIds :
        /\ bg_tasks[b].pc = "done"
        /\ bg_tasks[b].logged = "process_error"
        /\ ~bg_tasks[b].raised
        /\ \E i, j \in ItemIds(b) :
              /\ bg_tasks[b].items[i].outcome = "extract_error"
              /\ bg_tasks[b].items[j].result

\* C6: in one pipeline_index_files call the engine's process step is
\* invoked at most once, only after every item has returned and only if
\* one of them returned True; never for an empty batch or one whose items
\* all failed.
C6_ProcessOnceAfterAll ==
    \A b \in BgIds :
        /\ bg_tasks[b].process_calls <= 1
        /\ bg_tasks[b].process_calls = 1 =>
              /\ \A i \in ItemIds(b) : bg_tasks[b].items[i].pc = "returned"
              /\ \E i \in ItemIds(b) : bg_tasks[b].items[i].result
        /\ (bg_tasks[b].pc = "done"
              /\ \A i \in ItemIds(b) : ~bg_tasks[b].items[i].result)
              => bg_tasks[b].process_calls = 0

\* C6 witness: one batch of two called the process step once, with one
\* item failed and one succeeded; another batch, empty, ended without it.
C6_Witness ==
    \E b, e \in BgIds :
        /\ bg_tasks[b].process_calls = 1
        /\ \E i, j \in ItemIds(b) :
              /\ bg_tasks[b].items[i].pc = "returned" /\ ~bg_tasks[b].items[i].result
              /\ bg_tasks[b].items[j].result
        /\ bg_tasks[e].paths = <<>>
        /\ bg_tasks[e].pc = "done"
        /\ bg_tasks[e].process_calls = 0

\* C6 second witness state: every item of a batch of two failed and the
\* batch ended without the process step.
C6_AllFailedReached ==
    \E b \in BgIds :
        /\ Len(bg_tasks[b].paths) = 2
        /\ bg_tasks[b].pc = "done"
        /\ \A i \in ItemIds(b) : ~bg_tasks[b].items[i].result
        /\ bg_tasks[b].process_calls = 0

\* the items of the task of request r that succeeded in the pipeline
SucceededOf(r) ==
    IF r.task = 0 THEN 0
    ELSE Cardinality({i \in ItemIds(r.task) : bg_tasks[r.task].items[i].result})

\* request r is a batch request that was answered with a status and whose
\* pipeline task, if it has one, has ended
BatchSettled(r) ==
    /\ r.kind = "batch"
    /\ r.code = 200
    /\ r.task # 0 => bg_tasks[r.task].pc = "done"

\* C7 as claimed: the status of a batch of N files, K of them supported, is
\* success iff K = N and all N items succeed in the pipeline, failure iff
\* zero items succeed, partial_success otherwise.
C7_StatusFromPipeline ==
    \A j \in 1..Len(requests) :
        LET r == requests[j]
            s == SucceededOf(r)
        IN BatchSettled(r) =>
              /\ (r.status = "success") <=> (r.k = r.n /\ s = r.n)
              /\ (r.status = "failure") <=> (s = 0)
              /\ (r.status = "partial_success") <=> (s # 0 /\ ~(r.k = r.n /\ s = r.n))

\* C7 as amended: the status of a batch request that is answered with one
\* is success iff K = N, failure iff K = 0, partial_success otherwise: it is
\* fixed when the files are staged, whatever the pipeline does with them.
C7_StatusFromStaging ==
    \A j \in 1..Len(requests) :
        LET r == requests[j] IN
        (r.kind = "batch" /\ r.code = 200) =>
              /\ (r.status = "success") <=> (r.k = r.n)
              /\ (r.status = "failure") <=> (r.k = 0)
              /\ (r.status = "partial_success") <=> (0 < r.k /\ r.k < r.n)

\* C7 witness: a batch of two supported files was answered success and one
\* of its items then failed in the pipeline; another batch was answered
\* partial_success.
C7_Witness ==
    \E j, l \in 1..Len(requests) :
        /\ BatchSettled(requests[j])
        /\ requests[j].status = "success"
        /\ requests[j].n = 2
        /\ SucceededOf(requests[j]) = 1
        /\ requests[l].kind = "batch"
        /\ requests[l].status = "partial_success"

\* C11 as claimed: pipeline_enqueue_file returns False when extraction
\* yields no text, False when the extraction fails (the file cannot be read
\* or the extractor raises), and True in every other case.
C11_SucceededOtherwise ==
    \A b \in BgIds : \A i \in ItemIds(b) :
        LET item == bg_tasks[b].items[i] IN
        TerminalItem(item) =>
            /\ item.outcome = "empty" => ~item.result
            /\ item.outcome \in {"extract_error", "read_error"} => ~item.result
            /\ item.outcome \notin {"empty", "extract_error", "read_error"} => item.result

\* C11 as amended: pipeline_enqueue_file returns True exactly when the
\* extraction yields text and the engine accepts it; it returns False when
\* extraction yields no text, when the extraction fails, and also when the
\* submission to the engine fails; it never raises.
C11_SucceededIffSubmitted ==
    \A b \in BgIds : \A i \in ItemIds(b) :
        LET item == bg_tasks[b].items[i] IN
        TerminalItem(item) =>
            /\ item.pc = "returned"
            /\ item.result <=> item.outcome = "ok"
            /\ item.outcome \in {"empty", "extract_error", "read_error", "submit_error"}
                  => ~item.result

\* C11 witness: the four results side by side: a call returned True, and
\* calls returned False for no text, for a failing extractor and for a
\* failing submission.
C11_Witness ==
    \E b, c \in BgIds : \E i \in ItemIds(b), j \in ItemIds(c) :
        /\ bg_tasks[b].items[i].outcome = "submit_error"
        /\ ~bg_tasks[b].items[i].result
        /\ bg_tasks[c].items[j].outcome \in {"empty", "extract_error"}
        /\ ~bg_tasks[c].items[j].result
        /\ \E k \in ItemIds(c) : bg_tasks[c].items[k].result

\* the request answered in this step, when it is an upload of a file whose
\* name has no supported extension
RejectedUpload ==
    /\ Len(requests') = Len(requests) + 1
    /\ requests'[Len(requests')].kind = "upload"
    /\ Lower(requests'[Len(requests')].ext) \notin supported_extensions

\* C14: an upload of a file whose name has no supported extension has no
\* staging side effect: nothing is written to disk (no temporary file, no
\* temp sub-directory), no pipeline task is scheduled and nothing is
\* enqueued.
C14_RejectedBeforeStaging ==
    [][RejectedUpload =>
          /\ disk' = disk
          /\ bg_tasks' = bg_tasks
          /\ enqueued_docs' = enqueued_docs]_vars

\* C14 witness: a c.exe upload has been answered with an error and the
\* disk holds nothing, not even the temp sub-directory; no task exists.
C14_Witness ==
    /\ Len(requests) = 1
    /\ requests[1].kind = "upload"
    /\ requests[1].ext = ".exe"
    /\ requests[1].code >= 400
    /\ TempDir \notin disk
    /\ disk = {}
    /\ bg_tasks = <<>>

\* C15 as claimed: an upload with an unsupported extension is answered
\* with the client error 400, not with a server failure.
C15_UnsupportedIs400 ==
    \A j \in 1..Len(requests) :
        (requests[j].kind = "upload"
            /\ Lower(requests[j].ext) \notin supported_extensions)
            => requests[j].code = 400

\* the pipeline_enqueue_file calls: <<b, i>> is the call on item i of task b
Calls == UNION {{<<b, i>> : i \in ItemIds(b)} : b \in BgIds}

\* C18 as claimed: every staged file is processed by exactly one
\* pipeline_enqueue_file call and deleted exactly once, whatever the
\* interleaving of single and batch uploads: no two calls are given the
\* same staged path, and no call finds that its staged file has already
\* been deleted.
C18_OneCallPerStagedFile ==
    /\ \A x, y \in Calls :
           x # y => bg_tasks[x[1]].paths[x[2]] # bg_tasks[y[1]].paths[y[2]]
    /\ \A x \in Calls :
           LET item == bg_tasks[x[1]].items[x[2]] IN
           TerminalItem(item) => item.unlink # "missing"

\* the staged paths whose pipeline_enqueue_file call has not ended yet
PendingPaths ==
    {bg_tasks[x[1]].paths[x[2]] :
        x \in {y \in Calls : ~TerminalItem(bg_tasks[y[1]].items[y[2]])}}

\* a handler stages files and schedules their task in this step
Stages == Len(bg_tasks') = Len(bg_tasks) + 1

\* C21 as claimed: any two uploads are staged at distinct paths: the files
\* one request stages have pairwise distinct paths, and none of them is
\* written over the staged file of an upload that has not been processed.
C21_StagedAtDistinctPaths ==
    [][Stages =>
          LET staged == bg_tasks'[Len(bg_tasks')].paths IN
          /\ \A i, j \in 1..Len(staged) : i # j => staged[i] # staged[j]
          /\ \A i \in 1..Len(staged) : staged[i] \notin PendingPaths]_vars

\* C22 as claimed: a file staged under the temp sub-directory whose
\* pipeline call has not consumed it yet is returned neither by
\* scan_directory nor by scan_directory_for_new_files.
C22_ScanSkipsStagedUploads ==
    \A path \in PendingPaths :
        path \in disk => path \notin scan_directory /\ path \notin scan_new_files

(***************************************************************************)
(* ---- The pipeline on files of the input directory ----                  *)
(*                                                                         *)
(* pipeline_index_files and pipeline_enqueue_file take any path: the       *)
(* scheduled scan hands them the files the operator has put into the       *)
(* input directory.  Such a file has whatever name the operator gave it,   *)
(* a name that starts with "__tmp_" included.                              *)
(***************************************************************************)
InputNames ==
    {[stem |-> "a", ext |-> ".txt"],
     [stem |-> "r", ext |-> ".xlsx"]}

\* input_dir / "<name>" or input_dir / "__tmp_<name>"
InputPath(marker, name) == [dir |-> "input", marker |-> marker, ts |-> 0, name |-> name]

InputFiles == {InputPath(marker, name) : marker \in BOOLEAN, name \in InputNames}

\* pipeline_index_files([file_path]) is scheduled for a file of the input
\* directory (the file may have been removed since it was listed)
IndexGivenFile ==
    /\ Len(requests) < MaxRequests
    /\ \E file_path \in InputFiles :
          bg_tasks' = Append(bg_tasks, NewTask(<<file_path>>))
    /\ requests' = Append(requests,
          [kind |-> "direct", ext |-> "", n |-> 1, k |-> 1, code |-> 0, status |-> "none",
           task |-> Len(bg_tasks) + 1])
    /\ UNCHANGED <<clock, disk, enqueued_docs, faults>>
    /\ UNCHANGED <<scanVars, queryVars, authVars, paramVars>>

\* the input directory holds any of the operator's files
InitDirect ==
    /\ ScanInit /\ QueryOff /\ AuthInit("") /\ ParamsOff
    /\ clock = 0
    /\ disk \in SUBSET InputFiles
    /\ requests = <<>>
    /\ bg_tasks = <<>>
    /\ enqueued_docs = 0
    /\ faults = 0

NextDirect ==
    \/ IndexGivenFile
    \/ \E b \in BgIds : IndexStart(b)
    \/ \E b \in BgIds : \E i \in ItemIds(b) : EnqueueExtract(b, i)
    \/ \E b \in BgIds : \E i \in ItemIds(b) : EnqueueSubmit(b, i)
    \/ \E b \in BgIds : IndexGathered(b)
    \/ \E b \in BgIds : IndexProcessed(b)

SpecDirect == InitDirect /\ [][NextDirect]_vars

\* C23 as claimed: the pipeline deletes only files that save_temp_file
\* created: a file of the input directory that is given to
\* pipeline_enqueue_file is still on disk when the call returns.
C23_OnlyStagedFilesDeleted ==
    [][\A b \in BgIds : \A i \in ItemIds(b) :
          (/\ ItemEnds(b, i)
           /\ bg_tasks[b].paths[i] \in InputFiles
           /\ bg_tasks[b].paths[i] \in disk)
              => bg_tasks[b].paths[i] \in disk']_vars

\* C25 as claimed: a file with a supported extension that could be read
\* and whose content is non-empty and decodable (nothing in the
\* environment has failed) is submitted to the engine and the call returns
\* True, whichever supported extension it has.
C25_SupportedExtensionSucceeds ==
    faults = 0 =>
        \A x \in Calls :
            LET item == bg_tasks[x[1]].items[x[2]]
                path == bg_tasks[x[1]].paths[x[2]]
            IN (/\ TerminalItem(item)
                /\ item.outcome # "read_error"
                /\ Suffix(path) \in supported_extensions)
                   => item.outcome = "ok" /\ item.result

(***************************************************************************)
(* ---- The mutating endpoints behind verify_api_key ----                  *)
(*                                                                         *)
(* FastAPI resolves Depends(verify_api_key) before it calls the handler:   *)
(* when the dependency raises, the request is answered 403 and the         *)
(* handler is never entered.                                               *)
(***************************************************************************)
Endpoints == {"scan", "upload", "text", "batch", "delete"}

\* verify_api_key raises: the 403 is the whole effect of the request
Reject(e) ==
    /\ Len(requests) < MaxRequests
    /\ Deny
    /\ requests' = Append(requests,
          [kind |-> e, ext |-> "", n |-> 0, k |-> 0, code |-> 403, status |-> "none",
           task |-> 0])
    /\ UNCHANGED <<api_key, text_tasks, rag_store>>
    /\ UNCHANGED <<clock, disk, bg_tasks, enqueued_docs, faults>>
    /\ UNCHANGED <<scanVars, queryVars, paramVars>>

\* POST /documents/text: insert_text schedules pipeline_index_texts
InsertText ==
    /\ Len(requests) < MaxRequests
    /\ Admit
    /\ text_tasks' = text_tasks + 1
    /\ requests' = Append(requests,
          [kind |-> "text", ext |-> "", n |-> 1, k |-> 1, code |-> 200,
           status |-> "success", task |-> 0])
    /\ UNCHANGED <<api_key, rag_store>>
    /\ UNCHANGED <<clock, disk, bg_tasks, enqueued_docs, faults>>
    /\ UNCHANGED <<scanVars, queryVars, paramVars>>

\* DELETE /documents: clear_documents empties the engine's stores
ClearDocuments ==
    /\ Len(requests) < MaxRequests
    /\ Admit
    /\ rag_store' = "cleared"
    /\ requests' = Append(requests,
          [kind |-> "delete", ext |-> "", n |-> 0, k |-> 0, code |-> 200,
           status |-> "success", task |-> 0])
    /\ UNCHANGED <<api_key, text_tasks>>
    /\ UNCHANGED <<clock, disk, bg_tasks, enqueued_docs, faults>>
    /\ UNCHANGED <<scanVars, queryVars, paramVars>>

\* the server is started with or without a key
InitAuth ==
    /\ ScanInit
    /\ IngestInit
    /\ QueryOff
    /\ \E key \in Keys : AuthInit(key)
    /\ ParamsOff

NextAuth ==
    \/ \E e \in Endpoints : Reject(e)
    \/ \E c \in Callers : StartScanCall(c)
    \/ \E c \in Callers : StartScanAcquire(c)
    \/ \E c \in Callers : StartScanCheck(c)
    \/ \E c \in Callers : StartScanUpdate(c)
    \/ \E c \in Callers : StartScanSchedule(c)
    \/ UploadToInputDir
    \/ InsertBatch
    \/ InsertText
    \/ ClearDocuments

SpecAuth == InitAuth /\ [][NextAuth]_vars

\* a request arrives at a mutating endpoint in this step
Arrives == Len(requests') > Len(requests) \/ calls' > calls

\* a key is configured and the header the request carried is absent or
\* is not that key
BadKey ==
    /\ api_key # ""
    /\ presented' = None \/ presented' # Str(api_key)

\* C16: when a key is configured, a request to a mutating endpoint whose
\* key header is absent or does not match is answered 403 and has no side
\* effect: the progress record and the scan handlers are untouched, no
\* file is staged, nothing is enqueued or cleared and no background task
\* of any kind is scheduled.
C16_DeniedWithoutSideEffect ==
    [][(Arrives /\ BadKey) =>
          /\ Len(requests') = Len(requests) + 1
          /\ requests'[Len(requests')].code = 403
          /\ UNCHANGED <<scan_progress, progress_lock, scan_pc, calls, scan_tasks,
                         indexed_files>>
          /\ UNCHANGED <<disk, bg_tasks, enqueued_docs>>
          /\ UNCHANGED <<text_tasks, rag_store>>]_vars

\* C16 witness: with a key configured, a scan request without a header
\* and a delete request with a wrong key were denied, and nothing changed.
C16_Witness ==
    /\ api_key = "secret"
    /\ Len(requests) = 2
    /\ requests[1].kind = "scan" /\ requests[1].code = 403
    /\ requests[2].kind = "delete" /\ requests[2].code = 403
    /\ presented = Str("other")
    /\ scan_progress = InitialProgress
    /\ scan_tasks = <<>>
    /\ disk = {}
    /\ bg_tasks = <<>>
    /\ text_tasks = 0
    /\ rag_store = "kept"

\* the request that arrives in this step is answered 403
Denied ==
    /\ Len(requests') = Len(requests) + 1
    /\ requests'[Len(requests')].code = 403

\* C24 as claimed: a request whose X-API-Key header equals the configured
\* key is never denied by verify_api_key, and when no key is configured no
\* request is denied.
C24_ValidKeyNeverDenied ==
    [][(Arrives /\ (api_key = "" \/ presented' = Str(api_key))) => ~Denied]_vars

(***************************************************************************)
(* ---- Query gateway: routes/query_routes.py ----                         *)
(*                                                                         *)
(* A string is a sequence of characters; the alphabet holds a plain        *)
(* character and the double quote, which JSON escapes.  The engine         *)
(* answers a request with a plain string, a dict, a fragment sequence      *)
(* (which may raise after some fragments) or by raising.                   *)
(***************************************************************************)
Chars == {"a", "\""}

StringsUpTo(n) == UNION {[1..k -> Chars] : k \in 0..n}

Strings == StringsUpTo(MaxStrLen)

FragSeqs == UNION {[1..k -> Strings] : k \in 0..MaxFrags}

\* the dicts the engine returns: no key, or the key "a" with a string value
Dicts == {<<>>} \cup {<< <<"a">>, v >> : v \in Strings}

NoFailure == 0 - 1

\* fail_after = k: the fragment sequence raises once k fragments are out
EngineResponses ==
    {[kind |-> "str", text |-> t, dict |-> <<>>, frags |-> <<>>, fail_after |-> NoFailure]
        : t \in Strings}
    \cup {[kind |-> "dict", text |-> <<>>, dict |-> d, frags |-> <<>>,
           fail_after |-> NoFailure] : d \in Dicts}
    \cup {[kind |-> "frags", text |-> <<>>, dict |-> <<>>, frags |-> fs, fail_after |-> k]
        : fs \in FragSeqs, k \in NoFailure..MaxFrags}
    \cup {[kind |-> "raise", text |-> <<>>, dict |-> <<>>, frags |-> <<>>,
           fail_after |-> NoFailure]}

\* QueryRequest.stream: Optional[bool] = None
StreamFlags == {"absent", "false", "true"}

\* the truth value of request.stream
Truthy(flag) == flag = "true"

\* result += chunk, over the whole sequence
RECURSIVE Concat(_)
Concat(fs) == IF fs = <<>> THEN <<>> ELSE Head(fs) \o Concat(Tail(fs))

\* json.dumps of a str: the text between the quotes of the JSON string
RECURSIVE Escape(_)
Escape(str) ==
    IF str = <<>> THEN <<>>
    ELSE (IF Head(str) \in {"\"", "\\"} THEN <<"\\", Head(str)>> ELSE <<Head(str)>>)
             \o Escape(Tail(str))

\* json.loads of that text, as the consumer of a frame does it
RECURSIVE Unescape(_)
Unescape(txt) ==
    IF txt = <<>> THEN <<>>
    ELSE IF Head(txt) = "\\" /\ Len(txt) >= 2
         THEN <<txt[2]>> \o Unescape(Tail(Tail(txt)))
         ELSE <<Head(txt)>> \o Unescape(Tail(txt))

\* json.dumps(response, indent=2) of a dict
JsonDumps(d) ==
    IF d = <<>> THEN <<"{", "}">>
    ELSE <<"{", "\n", " ", " ", "\"">> \o Escape(d[1]) \o <<"\"", ":", " ", "\"">>
             \o Escape(d[2]) \o <<"\"", "\n", "}">>

\* f"{json.dumps({'response': chunk})}\n" and f"{json.dumps({'error': str(e)})}\n":
\* one line holding one key and the JSON text of its value
ResponseFrame(chunk) == [key |-> "response", value |-> Escape(chunk)]

ErrorFrame == [key |-> "error", value |-> <<>>]

\* the payload a consumer reads from a frame
Payload(frame) == Unescape(frame.value)

\* if chunk: a fragment is framed only when it is not empty
FramesEveryChunk(chunk) == TRUE

FramesNoChunk(chunk) == FALSE

Framed(chunk) == chunk # <<>>

\* the except branch of stream_generator yields one error frame
ErrorSwallowed(frames) == frames

OnStreamError(frames) == Append(frames, ErrorFrame)

\* the fragment sequence raises before it yields fragment number pos + 1
RaisesAt(e, pos) == e.kind = "frags" /\ e.fail_after = pos

\* the whole sequence can be drained
Drains(e) == e.kind = "frags" /\ (e.fail_after = NoFailure \/ e.fail_after > Len(e.frags))

\* POST /query: query_text, the normalisation of the engine's response
QueryTextResult(req, e) ==
    IF e.kind = "raise" THEN [code |-> 500, response |-> <<>>]
    ELSE IF e.kind = "str" THEN [code |-> 200, response |-> e.text]
    ELSE IF Truthy(req.stream) \/ e.kind = "frags"
         THEN IF Drains(e)
              THEN [code |-> 200, response |-> Concat(e.frags)]
              ELSE [code |-> 500, response |-> <<>>]
    ELSE IF e.kind = "dict" THEN [code |-> 200, response |-> JsonDumps(e.dict)]
    ELSE [code |-> 200, response |-> <<>>]

\* code 0: the request is not answered yet
NotAnswered == [code |-> 0, response |-> <<>>]

QueryText ==
    /\ q_sync = NotAnswered
    /\ q_engine.kind # "none"
    /\ q_sync' = QueryTextResult(q_request, q_engine)
    /\ UNCHANGED <<q_request, q_engine, q_stream, q_frames>>
    /\ UNCHANGED <<scanVars, ingestVars, authVars, paramVars>>

(***************************************************************************)
(* POST /query/stream: query_text_stream and its stream_generator.         *)
(* q_stream.state is "ready", then "running" with pos fragments consumed,   *)
(* then "done"; "failed" when rag.aquery itself raised (HTTP 500).         *)
(***************************************************************************)
\* params.stream = True; response = await rag.aquery(...); StreamingResponse
StreamStart ==
    /\ q_stream.state = "ready"
    /\ q_stream' = [q_stream EXCEPT
                       !.state = IF q_engine.kind = "raise" THEN "failed" ELSE "running"]
    /\ UNCHANGED <<q_request, q_engine, q_sync, q_frames>>
    /\ UNCHANGED <<scanVars, ingestVars, authVars, paramVars>>

Streaming == q_stream.state = "running"

\* if isinstance(response, str): yield one frame
StreamString ==
    /\ Streaming
    /\ q_engine.kind = "str"
    /\ q_frames' = Append(q_frames, ResponseFrame(q_engine.text))
    /\ q_stream' = [q_stream EXCEPT !.state = "done"]
    /\ UNCHANGED <<q_request, q_engine, q_sync>>
    /\ UNCHANGED <<scanVars, ingestVars, authVars, paramVars>>

\* async for chunk in response: if chunk: yield a frame
StreamNext ==
    /\ Streaming
    /\ q_engine.kind = "frags"
    /\ q_stream.pos < Len(q_engine.frags)
    /\ ~RaisesAt(q_engine, q_stream.pos)
    /\ LET chunk == q_engine.frags[q_stream.pos + 1] IN
       q_frames' = IF Framed(chunk) THEN Append(q_frames, ResponseFrame(chunk))
                                    ELSE q_frames
    /\ q_stream' = [q_stream EXCEPT !.pos = @ + 1]
    /\ UNCHANGED <<q_request, q_engine, q_sync>>
    /\ UNCHANGED <<scanVars, ingestVars, authVars, paramVars>>

\* the sequence ends and the generator returns
StreamEnd ==
    /\ Streaming
    /\ q_engine.kind = "frags"
    /\ q_stream.pos = Len(q_engine.frags)
    /\ ~RaisesAt(q_engine, q_stream.pos)
    /\ q_stream' = [q_stream EXCEPT !.state = "done"]
    /\ UNCHANGED <<q_request, q_engine, q_sync, q_frames>>
    /\ UNCHANGED <<scanVars, ingestVars, authVars, paramVars>>

\* except Exception: the sequence raised, or the response cannot be
\* iterated (a dict): one error frame, and the generator returns
StreamError ==
    /\ Streaming
    /\ \/ RaisesAt(q_engine, q_stream.pos) /\ q_stream.pos <= Len(q_engine.frags)
       \/ q_engine.kind = "dict"
    /\ q_frames' = OnStreamError(q_frames)
    /\ q_stream' = [q_stream EXCEPT !.state = "done"]
    /\ UNCHANGED <<q_request, q_engine, q_sync>>
    /\ UNCHANGED <<scanVars, ingestVars, authVars, paramVars>>

stream_generator == StreamString \/ StreamNext \/ StreamEnd \/ StreamError

\* one request, and what the engine does for it
InitQuery ==
    /\ ScanInit
    /\ IngestInit
    /\ q_request \in [stream : StreamFlags]
    /\ q_engine \in EngineResponses
    /\ q_sync = NotAnswered
    /\ q_stream = [state |-> "ready", pos |-> 0]
    /\ q_frames = <<>>
    /\ AuthInit("")
    /\ ParamsOff

NextQuery ==
    \/ QueryText
    \/ StreamStart
    \/ StreamString
    \/ StreamNext
    \/ StreamEnd
    \/ StreamError

SpecQuery == InitQuery /\ [][NextQuery]_vars

(***************************************************************************)
(* query_request_to_params on one request.  What QueryParam.stream         *)
(* defaults to is the engine's business: each possibility is considered.   *)
(***************************************************************************)
BuildParams ==
    /\ p_params = NotBuilt
    /\ p_params' = query_request_to_params(p_request)
    /\ UNCHANGED <<stream_default, p_request>>
    /\ UNCHANGED <<scanVars, ingestVars, queryVars, authVars>>

InitParams ==
    /\ ScanInit
    /\ IngestInit
    /\ QueryOff
    /\ AuthInit("")
    /\ stream_default \in {"None", "False", "True"}
    /\ p_request \in QueryRequests
    /\ p_params = NotBuilt

NextParams == BuildParams

SpecParams == InitParams /\ [][NextParams]_vars

\* the request sets no optional field, except those in `given`
OnlyGiven(given) ==
    \A f \in (OptionalNames \cup {"stream"}) \ given : p_request[f] = "None"

\* C17 as claimed: for a request with mode hybrid and no optional field set
\* the configuration built equals the engine's default configuration for
\* hybrid in every field; for a request that sets top_k = 7 and nothing
\* else it differs from that default in top_k only.
C17_AbsentFieldsKeepDefaults ==
    (p_params # NotBuilt /\ p_request["mode"] = "hybrid") =>
        /\ OnlyGiven({}) => p_params = DefaultParam("hybrid")
        /\ (OnlyGiven({"top_k"}) /\ p_request["top_k"] = "7")
              => p_params = [DefaultParam("hybrid") EXCEPT !["top_k"] = "7"]

(***************************************************************************)
(* ---- Properties of the query gateway ----                               *)
(***************************************************************************)
StreamDone == q_stream.state = "done"

SyncDone == q_sync # NotAnswered

\* the frames of a sequence of fragments, one per fragment
RECURSIVE FramesOf(_)
FramesOf(fs) ==
    IF fs = <<>> THEN <<>> ELSE <<ResponseFrame(Head(fs))>> \o FramesOf(Tail(fs))

\* the payloads the consumer reads, concatenated
RECURSIVE ConcatPayloads(_)
ConcatPayloads(frames) ==
    IF frames = <<>> THEN <<>>
    ELSE Payload(Head(frames)) \o ConcatPayloads(Tail(frames))

NonEmpty(chunk) == chunk # <<>>

\* C8 as stated: for every fragment sequence that ends without failure,
\* query returns the concatenation of the fragments in arrival order,
\* queryStream emits one response frame per fragment in the same order, and
\* the concatenated payloads of the frames equal the synchronous response.
C8_OneFramePerFragment ==
    (Drains(q_engine) /\ SyncDone /\ StreamDone) =>
        /\ q_sync = [code |-> 200, response |-> Concat(q_engine.frags)]
        /\ q_frames = FramesOf(q_engine.frags)
        /\ ConcatPayloads(q_frames) = q_sync.response

\* C8, amended: for every fragment sequence that ends without failure, query
\* returns the concatenation of the fragments in arrival order, queryStream
\* emits the non-empty fragments as response frames in the same order (an
\* empty fragment gets no frame), and the concatenated payloads of the
\* frames equal the synchronous response.
C8_OneFramePerNonEmptyFragment ==
    (Drains(q_engine) /\ SyncDone /\ StreamDone) =>
        /\ q_sync = [code |-> 200, response |-> Concat(q_engine.frags)]
        /\ q_frames = FramesOf(SelectSeq(q_engine.frags, NonEmpty))
        /\ ConcatPayloads(q_frames) = q_sync.response

\* both paths answered a sequence of three fragments, one of them empty and
\* one holding a character that JSON escapes
C8_Witness ==
    /\ Drains(q_engine) /\ SyncDone /\ StreamDone
    /\ Len(q_engine.frags) = 3
    /\ q_engine.frags[2] = <<>>
    /\ q_engine.frags[3] = <<"\"">>
    /\ Len(q_frames) = 2
    /\ q_sync.response = q_engine.frags[1] \o <<"\"">>
    /\ q_engine.frags[1] # <<>>

\* the fragment sequence failed, or the response cannot be iterated at all
StreamFailure ==
    \/ q_engine.kind = "frags" /\ q_engine.fail_after \in 0..Len(q_engine.frags)
    \/ q_engine.kind = "dict"

\* the fragments the sequence yields before it fails
Yielded ==
    IF q_engine.kind = "frags" /\ q_engine.fail_after \in 0..Len(q_engine.frags)
    THEN SubSeq(q_engine.frags, 1, q_engine.fail_after)
    ELSE q_engine.frags

\* C9: when the fragment sequence fails after k response frames, the stream
\* is exactly those k response frames followed by exactly one error frame
\* and then ends; a sequence that ends without failure gives no error
\* frame; so a finished stream ends with an error frame iff a failure
\* occurred, and an error frame is never followed by another frame.
C9_OneTerminalErrorFrame ==
    /\ \A i \in 1..Len(q_frames) :
           q_frames[i].key = "error" => (i = Len(q_frames) /\ StreamDone)
    /\ StreamDone =>
           /\ StreamFailure =>
                  q_frames = Append(FramesOf(SelectSeq(Yielded, NonEmpty)), ErrorFrame)
           /\ ~StreamFailure => \A i \in 1..Len(q_frames) : q_frames[i].key = "response"
           /\ StreamFailure <=>
                  (q_frames # <<>> /\ q_frames[Len(q_frames)].key = "error")

\* a sequence of three fragments failed after two of them: two response
\* frames, then the error frame
C9_Witness ==
    /\ StreamDone
    /\ q_engine.kind = "frags"
    /\ Len(q_engine.frags) = 3
    /\ q_engine.fail_after = 2
    /\ Len(q_frames) = 3
    /\ q_frames[1].key = "response"
    /\ q_frames[2].key = "response"
    /\ q_frames[3].key = "error"

\* the response frames among the frames yielded
ResponseFrames == SelectSeq(q_frames, LAMBDA fr : fr.key = "response")

\* C19 as claimed: for a fragment sequence queryStream produces exactly one
\* response frame per fragment, in arrival order, the empty fragment
\* included, so that there are as many response frames as fragments; for a
\* plain string it produces exactly one frame.
C19_FrameCountEqualsFragmentCount ==
    StreamDone =>
        /\ (q_engine.kind = "frags" /\ ~StreamFailure) =>
               /\ Len(ResponseFrames) = Len(q_engine.frags)
               /\ \A i \in 1..Len(ResponseFrames) :
                      Payload(ResponseFrames[i]) = q_engine.frags[i]
        /\ q_engine.kind = "str" => Len(q_frames) = 1

\* C19 as amended: for a fragment sequence queryStream produces exactly one
\* response frame per non-empty fragment that arrives, in arrival order,
\* and none for an empty fragment, so that there are as many response
\* frames as non-empty fragments; for a plain string it produces exactly
\* one frame carrying that string, also when the string is empty.
C19_FrameCountEqualsNonEmptyCount ==
    StreamDone =>
        /\ q_engine.kind = "frags" =>
               LET kept == SelectSeq(Yielded, NonEmpty) IN
               /\ Len(ResponseFrames) = Len(kept)
               /\ \A i \in 1..Len(kept) : Payload(ResponseFrames[i]) = kept[i]
        /\ q_engine.kind = "str" =>
               /\ Len(q_frames) = 1
               /\ q_frames[1].key = "response"
               /\ Payload(q_frames[1]) = q_engine.text

\* C19 witness: the stream of a sequence of three fragments, the first and
\* the last of them empty, ended with one response frame.
C19_Witness ==
    /\ StreamDone
    /\ q_engine.kind = "frags"
    /\ ~StreamFailure
    /\ Len(q_engine.frags) = 3
    /\ q_engine.frags[1] = <<>>
    /\ q_engine.frags[2] # <<>>
    /\ q_engine.frags[3] = <<>>
    /\ Len(q_frames) = 1

\* C19 second witness state: the stream of the empty string is one frame.
C19_EmptyStringReached ==
    /\ StreamDone
    /\ q_engine.kind = "str"
    /\ q_engine.text = <<>>
    /\ Len(q_frames) = 1

\* C10 as stated: whenever the engine returns a dict, POST /query answers
\* 200 with the dict's serialized text, whatever the request's stream flag
\* (absent, false or true); a plain string is returned unchanged.
C10_DictAlwaysSerialized ==
    SyncDone =>
        /\ q_engine.kind = "dict" =>
               q_sync = [code |-> 200, response |-> JsonDumps(q_engine.dict)]
        /\ q_engine.kind = "str" =>
               q_sync = [code |-> 200, response |-> q_engine.text]

====
